---- MODULE Spec2Model ----
(***************************************************************************)
(* A model of the flux-mcp crate: the diagnostic parser (diagnostics.rs),  *)
(* the verification runner (flux_runner.rs) and the tool facade            *)
(* (flux_mcp.rs).                                                          *)
(*                                                                         *)
(* JSON values (serde_json::Value) are tagged records:                     *)
(*   [str |-> s]  [int |-> n]  [bool |-> b]  [arr |-> <<...>>]             *)
(*   [obj |-> record]                                                      *)
(* A line of the subprocess's stdout is either such a value (the line is   *)
(* its JSON text) or [notjson |-> text], a line serde_json cannot parse.   *)
(* Option<T> is a sequence of length at most one: <<>> is None and <<x>>   *)
(* is Some(x).                                                             *)
(***************************************************************************)
EXTENDS Integers, Sequences, FiniteSets, TLC

None == <<>>
Some(x) == <<x>>

JStr(s) == [str |-> s]
JInt(n) == [int |-> n]
JBool(b) == [bool |-> b]
JArr(a) == [arr |-> a]
JObj(o) == [obj |-> o]

\* serde_json::Value::get(key): Some only on an object that has the key.
Get(v, key) ==
    IF "obj" \in DOMAIN v /\ key \in DOMAIN v.obj THEN Some(v.obj[key]) ELSE None

AsStr(v) == IF "str" \in DOMAIN v THEN Some(v.str) ELSE None
AsI64(v) == IF "int" \in DOMAIN v THEN Some(v.int) ELSE None
AsBool(v) == IF "bool" \in DOMAIN v THEN Some(v.bool) ELSE None
AsArray(v) == IF "arr" \in DOMAIN v THEN Some(v.arr) ELSE None

\* Option::unwrap_or
UnwrapOr(opt, dflt) == IF opt = None THEN dflt ELSE opt[1]

\* serde_json::from_str::<Value>(line): Err on a line that is not JSON.
FromStr(line) == IF "notjson" \in DOMAIN line THEN None ELSE Some(line)

\* The JSON text of a string: quotes around it, `"` and `\` escaped.
RECURSIVE Escape(_)
Escape(s) ==
    IF Len(s) = 0 THEN ""
    ELSE LET c == SubSeq(s, 1, 1)
         IN  (IF c = "\"" THEN "\\\"" ELSE IF c = "\\" THEN "\\\\" ELSE c)
                 \o Escape(SubSeq(s, 2, Len(s)))

JsonString(s) == "\"" \o Escape(s) \o "\""

\* Value::to_string(): the JSON text of a scalar value (the package ids of
\* the lines below are scalars).
JsonText(v) ==
    IF "str" \in DOMAIN v THEN JsonString(v.str)
    ELSE IF "int" \in DOMAIN v THEN ToString(v.int)
    ELSE IF "bool" \in DOMAIN v THEN (IF v.bool THEN "true" ELSE "false")
    ELSE "null"

(***************************************************************************)
(* diagnostics.rs                                                          *)
(***************************************************************************)

\* parse_span with unwrap_or(false) on is_primary.
parse_span_secondary(span) ==
    LET file_name == Get(span, "file_name")
        line_start == Get(span, "line_start")
        column_start == Get(span, "column_start")
        line_end == Get(span, "line_end")
        column_end == Get(span, "column_end")
        is_primary == Get(span, "is_primary")
    IN  IF \/ file_name = None
           \/ AsStr(file_name[1]) = None
           \/ line_start = None
           \/ column_start = None
           \/ line_end = None
           \/ column_end = None
           \/ is_primary = None
        THEN None
        ELSE Some([file_name |-> AsStr(file_name[1])[1],
                   line_start |-> UnwrapOr(AsI64(line_start[1]), 0),
                   column_start |-> UnwrapOr(AsI64(column_start[1]), 0),
                   line_end |-> UnwrapOr(AsI64(line_end[1]), 0),
                   column_end |-> UnwrapOr(AsI64(column_end[1]), 0),
                   is_primary |-> UnwrapOr(AsBool(is_primary[1]), FALSE)])

\* One iteration of the loop of parse_spans: None when a `?` returns early.
parse_span(span) ==
    LET file_name == Get(span, "file_name")
        line_start == Get(span, "line_start")
        column_start == Get(span, "column_start")
        line_end == Get(span, "line_end")
        column_end == Get(span, "column_end")
        is_primary == Get(span, "is_primary")
    IN  IF \/ file_name = None
           \/ AsStr(file_name[1]) = None
           \/ line_start = None
           \/ column_start = None
           \/ line_end = None
           \/ column_end = None
           \/ is_primary = None
        THEN None
        ELSE Some([file_name |-> AsStr(file_name[1])[1],
                   line_start |-> UnwrapOr(AsI64(line_start[1]), 0),
                   column_start |-> UnwrapOr(AsI64(column_start[1]), 0),
                   line_end |-> UnwrapOr(AsI64(line_end[1]), 0),
                   column_end |-> UnwrapOr(AsI64(column_end[1]), 0),
                   is_primary |-> UnwrapOr(AsBool(is_primary[1]), TRUE)])

RECURSIVE parse_spans_loop(_, _, _)
parse_spans_loop(arr, i, res) ==
    IF i > Len(arr) THEN Some(res)
    ELSE IF parse_span(arr[i]) = None THEN None
    ELSE parse_spans_loop(arr, i + 1, Append(res, parse_span(arr[i])[1]))

\* parse_spans skipping a malformed span instead of returning None.
RECURSIVE parse_spans_skip_loop(_, _, _)
parse_spans_skip_loop(arr, i, res) ==
    IF i > Len(arr) THEN Some(res)
    ELSE parse_spans_skip_loop(arr, i + 1,
                               IF parse_span(arr[i]) = None THEN res
                               ELSE Append(res, parse_span(arr[i])[1]))

parse_spans_partial(spans) ==
    IF AsArray(spans) = None THEN None
    ELSE parse_spans_skip_loop(AsArray(spans)[1], 1, <<>>)

parse_spans(spans) ==
    IF AsArray(spans) = None THEN None
    ELSE parse_spans_loop(AsArray(spans)[1], 1, <<>>)

\* Option::and_then
AndThenSpans(opt) == IF opt = None THEN None ELSE parse_spans(opt[1])
AndThenStr(opt) == IF opt = None THEN None ELSE AsStr(opt[1])

\* parse_message with `?` on the spans as well.
parse_message_strict_spans(message) ==
    LET level == AndThenStr(Get(message, "level"))
        code == AndThenStr(Get(message, "code"))
        rendered == AndThenStr(Get(message, "rendered"))
        spans == AndThenSpans(Get(message, "spans"))
        text == AndThenStr(Get(message, "message"))
    IN  IF level = None \/ text = None \/ spans = None THEN None
        ELSE Some([level |-> level[1], message |-> text[1], code |-> code,
                   rendered |-> rendered, spans |-> spans[1]])

parse_message(message) ==
    LET level == AndThenStr(Get(message, "level"))
        code == AndThenStr(Get(message, "code"))
        rendered == AndThenStr(Get(message, "rendered"))
        spans == UnwrapOr(AndThenSpans(Get(message, "spans")), <<>>)
        text == AndThenStr(Get(message, "message"))
    IN  IF level = None \/ text = None THEN None
        ELSE Some([level |-> level[1], message |-> text[1], code |-> code,
                   rendered |-> rendered, spans |-> spans])

\* parse_kinds leaving out an element that is not a string.
RECURSIVE parse_kinds_skip(_, _, _)
parse_kinds_skip(arr, i, kinds) ==
    IF i > Len(arr) THEN Some(kinds)
    ELSE parse_kinds_skip(arr, i + 1,
                          IF AsStr(arr[i]) = None THEN kinds
                          ELSE Append(kinds, AsStr(arr[i])[1]))

RECURSIVE parse_kinds(_, _, _)
parse_kinds(arr, i, kinds) ==
    IF i > Len(arr) THEN Some(kinds)
    ELSE IF AsStr(arr[i]) = None THEN None
    ELSE parse_kinds(arr, i + 1, Append(kinds, AsStr(arr[i])[1]))

parse_target(target) ==
    LET name == AndThenStr(Get(target, "name"))
        kind == Get(target, "kind")
    IN  IF name = None THEN None
        ELSE IF kind # None
        THEN IF AsArray(kind[1]) = None THEN None
             ELSE IF parse_kinds(AsArray(kind[1])[1], 1, <<>>) = None THEN None
             ELSE Some([name |-> name[1],
                        kind |-> Some(parse_kinds(AsArray(kind[1])[1], 1, <<>>)[1])])
        ELSE Some([name |-> name[1], kind |-> None])

\* str::contains: the marker occurs in the text as a contiguous substring.
StrContains(text, marker) ==
    \E i \in 1..(Len(text) - Len(marker) + 1) :
        SubSeq(text, i, i + Len(marker) - 1) = marker

flux_error_markers ==
    << "error jumping to join point",
       "assignment might be unsafe",
       "call to function that may panic",
       "refinement type error",
       "possible division by zero",
       "possible reminder with a divisor of zero",
       "assertion might fail",
       "parameter inference error at function call",
       "type invariant may not hold (when place is folded)",
       "cannot prove this code safe",
       "arithmetic operation may overflow",
       "arithmetic operation may underflow",
       "unsupported type in function call",
       "invariant cannot be proven",
       "associated refinement" >>

\* IsSyntaxError without the test of the level.
IsSyntaxErrorAnyLevel(diag) ==
    ~ \E m \in 1..Len(flux_error_markers) :
         StrContains(diag.message.message, flux_error_markers[m])

\* The closure handed to filter() in retain_only_syntax_errors.
IsSyntaxError(diag) ==
    /\ diag.message.level = "error"
    /\ ~ \E m \in 1..Len(flux_error_markers) :
            StrContains(diag.message.message, flux_error_markers[m])

RECURSIVE retain_loop(_, _, _)
retain_loop(diagnostics, i, res) ==
    IF i > Len(diagnostics) THEN res
    ELSE retain_loop(diagnostics, i + 1,
                     IF IsSyntaxError(diagnostics[i])
                     THEN Append(res, diagnostics[i]) ELSE res)

\* retain_only_syntax_errors losing the first diagnostic it keeps.
retain_all_but_first(diagnostics) ==
    IF retain_loop(diagnostics, 1, <<>>) = <<>> THEN <<>>
    ELSE Tail(retain_loop(diagnostics, 1, <<>>))

retain_only_syntax_errors(diagnostics) == retain_loop(diagnostics, 1, <<>>)

(***************************************************************************)
(* flux_runner.rs: the parsers of the accumulated output                   *)
(***************************************************************************)

\* The body of the loop of parse_flux_output for one line: the diagnostics
\* that line adds to res (none after a `continue` or a failed `if`).
diagnostic_of_line(line) ==
    LET json_val == FromStr(line)
        reason == IF json_val = None THEN None ELSE Get(json_val[1], "reason")
    IN  IF json_val = None THEN None
        ELSE IF reason = None THEN None
        ELSE IF AsStr(reason[1]) # Some("compiler-message") THEN None
        ELSE LET msg == Get(json_val[1], "message")
                 message == IF msg = None THEN None ELSE parse_message(msg[1])
                 tgt == Get(json_val[1], "target")
                 target == IF tgt = None THEN None ELSE parse_target(tgt[1])
                 pid == Get(json_val[1], "package_id")
                 package_id == IF pid = None THEN None ELSE Some(JsonText(pid[1]))
             IN  IF message = None THEN None
                 ELSE Some([message |-> message[1], package_id |-> package_id,
                            target |-> target])

RECURSIVE parse_output_loop(_, _, _)
parse_output_loop(lines, i, res) ==
    IF i > Len(lines) THEN res
    ELSE parse_output_loop(lines, i + 1,
                           IF diagnostic_of_line(lines[i]) = None THEN res
                           ELSE Append(res, diagnostic_of_line(lines[i])[1]))

\* parse_flux_output leaving the loop at the first line that is not JSON.
RECURSIVE parse_output_break_loop(_, _, _)
parse_output_break_loop(lines, i, res) ==
    IF i > Len(lines) THEN res
    ELSE IF FromStr(lines[i]) = None THEN res
    ELSE parse_output_break_loop(lines, i + 1,
                                 IF diagnostic_of_line(lines[i]) = None THEN res
                                 ELSE Append(res, diagnostic_of_line(lines[i])[1]))

parse_flux_output_break(output) == parse_output_break_loop(output, 1, <<>>)

parse_flux_output(output) == parse_output_loop(output, 1, <<>>)

AndThenI64(opt) == IF opt = None THEN None ELSE AsI64(opt[1])

\* parse_lemma with unwrap_or(0) on the four numbers.
parse_lemma_defaulting(message) ==
    LET name == AndThenStr(Get(message, "lemma_name"))
        file_name == AndThenStr(Get(message, "file_name"))
    IN  IF name = None \/ file_name = None THEN None
        ELSE Some([name |-> name[1], file_name |-> file_name[1],
                   start_line |-> UnwrapOr(AndThenI64(Get(message, "start_line")), 0),
                   start_col |-> UnwrapOr(AndThenI64(Get(message, "start_col")), 0),
                   end_line |-> UnwrapOr(AndThenI64(Get(message, "end_line")), 0),
                   end_col |-> UnwrapOr(AndThenI64(Get(message, "end_col")), 0)])

parse_lemma(message) ==
    LET name == AndThenStr(Get(message, "lemma_name"))
        file_name == AndThenStr(Get(message, "file_name"))
        start_line == AndThenI64(Get(message, "start_line"))
        end_line == AndThenI64(Get(message, "end_line"))
        start_col == AndThenI64(Get(message, "start_col"))
        end_col == AndThenI64(Get(message, "end_col"))
    IN  IF \/ name = None
           \/ file_name = None
           \/ start_line = None
           \/ end_line = None
           \/ start_col = None
           \/ end_col = None
        THEN None
        ELSE Some([name |-> name[1], file_name |-> file_name[1],
                   start_line |-> start_line[1], start_col |-> start_col[1],
                   end_line |-> end_line[1], end_col |-> end_col[1]])

\* The body of the loop of parse_flux_lemmas for one line.
lemma_of_line(line) ==
    LET json_val == FromStr(line)
        reason == IF json_val = None THEN None ELSE Get(json_val[1], "reason")
    IN  IF json_val = None THEN None
        ELSE IF reason = None THEN None
        ELSE IF AsStr(reason[1]) # Some("compiler-message") THEN None
        ELSE LET msg == Get(json_val[1], "message")
             IN  IF msg = None THEN None ELSE parse_lemma(msg[1])

RECURSIVE parse_lemmas_loop(_, _, _)
parse_lemmas_loop(lines, i, res) ==
    IF i > Len(lines) THEN res
    ELSE parse_lemmas_loop(lines, i + 1,
                           IF lemma_of_line(lines[i]) = None THEN res
                           ELSE Append(res, lemma_of_line(lines[i])[1]))

parse_flux_lemmas(output) == parse_lemmas_loop(output, 1, <<>>)

(***************************************************************************)
(* flux_runner.rs: one invocation of the verifier subprocess               *)
(***************************************************************************)

Ok(v) == [ok |-> TRUE, value |-> v]
Err(e) == [ok |-> FALSE, error |-> e]

Ops == {"verify_repository", "verify_packages", "get_syntax_errors", "get_lemmas"}

\* The runner method each tool calls (flux_mcp.rs).
RunnerMethod(o) ==
    CASE o = "verify_repository" -> "verify_repository"
      [] o = "verify_packages" -> "verify_package"
      [] o = "get_syntax_errors" -> "verify_repository"
      [] o = "get_lemmas" -> "get_lemmas"

\* ExitStatus::success()
StatusSuccess(code) == code = 0

\* RunnerReturn with success taken from the diagnostics as well as the status.
RunnerReturnByDiagnostics(method, out, code) ==
    IF method = "get_lemmas" THEN Ok(parse_flux_lemmas(out))
    ELSE Ok([success |-> /\ StatusSuccess(code)
                         /\ \A i \in 1..Len(parse_flux_output(out)) :
                                parse_flux_output(out)[i].message.level # "error",
             diagnostics |-> parse_flux_output(out)])

\* What the three runner methods return once wait() has given the status:
\* the accumulated output is parsed and wrapped.
RunnerReturn(method, out, code) ==
    IF method = "get_lemmas" THEN Ok(parse_flux_lemmas(out))
    ELSE Ok([success |-> StatusSuccess(code),
             diagnostics |-> parse_flux_output(out)])

SpawnError == "Failed to run Flux process"
ReadError(method) ==
    IF method = "get_lemmas" THEN "Failed to read ouptut: io error"
    ELSE "Failed to read output: io error"
WaitError == "Process wait failed: io error"

(***************************************************************************)
(* flux_mcp.rs: the tool facade                                            *)
(***************************************************************************)

\* serde_json::to_string of the derived Serialize impls: the fields in the
\* order of the struct, None as null.
RECURSIVE JoinComma(_)
JoinComma(texts) ==
    IF Len(texts) = 0 THEN ""
    ELSE IF Len(texts) = 1 THEN texts[1]
    ELSE texts[1] \o "," \o JoinComma(Tail(texts))

JsonOptString(opt) == IF opt = None THEN "null" ELSE JsonString(opt[1])

SerializeSpan(span) ==
    "{\"file_name\":" \o JsonString(span.file_name)
        \o ",\"line_start\":" \o ToString(span.line_start)
        \o ",\"column_start\":" \o ToString(span.column_start)
        \o ",\"line_end\":" \o ToString(span.line_end)
        \o ",\"column_end\":" \o ToString(span.column_end)
        \o ",\"is_primary\":" \o (IF span.is_primary THEN "true" ELSE "false")
        \o "}"

SerializeMessage(message) ==
    "{\"level\":" \o JsonString(message.level)
        \o ",\"message\":" \o JsonString(message.message)
        \o ",\"code\":" \o JsonOptString(message.code)
        \o ",\"rendered\":" \o JsonOptString(message.rendered)
        \o ",\"spans\":["
        \o JoinComma([i \in 1..Len(message.spans) |-> SerializeSpan(message.spans[i])])
        \o "]}"

SerializeTarget(opt) ==
    IF opt = None THEN "null"
    ELSE "{\"name\":" \o JsonString(opt[1].name)
             \o ",\"kind\":"
             \o (IF opt[1].kind = None THEN "null"
                 ELSE "[" \o JoinComma([i \in 1..Len(opt[1].kind[1]) |->
                                           JsonString(opt[1].kind[1][i])])
                          \o "]")
             \o "}"

SerializeDiagnostic(diag) ==
    "{\"message\":" \o SerializeMessage(diag.message)
        \o ",\"package_id\":" \o JsonOptString(diag.package_id)
        \o ",\"target\":" \o SerializeTarget(diag.target)
        \o "}"

SerializeLemma(lemma) ==
    "{\"name\":" \o JsonString(lemma.name)
        \o ",\"file_name\":" \o JsonString(lemma.file_name)
        \o ",\"start_line\":" \o ToString(lemma.start_line)
        \o ",\"start_col\":" \o ToString(lemma.start_col)
        \o ",\"end_line\":" \o ToString(lemma.end_line)
        \o ",\"end_col\":" \o ToString(lemma.end_col)
        \o "}"

\* Content::text
ContentText(s) == [type |-> "text", text |-> s]

\* .iter().map(|d| Content::text(serde_json::to_string(d).unwrap())).collect()
RenderDiagnostics(items) ==
    [i \in 1..Len(items) |-> ContentText(SerializeDiagnostic(items[i]))]
RenderLemmas(items) ==
    [i \in 1..Len(items) |-> ContentText(SerializeLemma(items[i]))]

CallToolSuccess(content) == [kind |-> "success", content |-> content, message |-> ""]
InvalidRequest(msg) == [kind |-> "invalid_request", content |-> <<>>, message |-> msg]

\* VerifyResponse with a failed verification turned into an error.
VerifyResponseFailIsError(result) ==
    IF result.ok /\ result.value.success
    THEN CallToolSuccess(Append(RenderDiagnostics(result.value.diagnostics),
                                ContentText("Verification Succeeded")))
    ELSE InvalidRequest("Verification failed")

\* VerifyResponse with the summary pushed before the diagnostics.
VerifyResponseSummaryFirst(result) ==
    IF result.ok
    THEN LET result_text == IF result.value.success
                            THEN "Verification Succeeded"
                            ELSE "Verification Failed"
         IN  CallToolSuccess(<<ContentText(result_text)>>
                                 \o RenderDiagnostics(result.value.diagnostics))
    ELSE InvalidRequest("Verification failed " \o result.error)

\* The match of verify_repository and of verify_packages.
VerifyResponse(result) ==
    IF result.ok
    THEN LET result_text == IF result.value.success
                            THEN "Verification Succeeded"
                            ELSE "Verification Failed"
         IN  CallToolSuccess(Append(RenderDiagnostics(result.value.diagnostics),
                                    ContentText(result_text)))
    ELSE InvalidRequest("Verification failed " \o result.error)

\* SyntaxErrorsResponse counting every diagnostic of the report.
SyntaxErrorsResponseCountsAll(result) ==
    IF result.ok
    THEN LET syntax_errors == retain_only_syntax_errors(result.value.diagnostics)
             result_text == "Found " \o ToString(Len(result.value.diagnostics))
                                     \o " syntax errors"
         IN  CallToolSuccess(Append(RenderDiagnostics(syntax_errors),
                                    ContentText(result_text)))
    ELSE InvalidRequest("Verification failed " \o result.error)

\* The match of get_syntax_errors.
SyntaxErrorsResponse(result) ==
    IF result.ok
    THEN LET syntax_errors == retain_only_syntax_errors(result.value.diagnostics)
             result_text == "Found " \o ToString(Len(syntax_errors))
                                     \o " syntax errors"
         IN  CallToolSuccess(Append(RenderDiagnostics(syntax_errors),
                                    ContentText(result_text)))
    ELSE InvalidRequest("Verification failed " \o result.error)

\* The match of get_lemmas.
\* LemmasResponse with a summary item after the lemmas.
LemmasResponseWithSummary(result) ==
    IF result.ok
    THEN CallToolSuccess(RenderLemmas(result.value)
                             \o <<ContentText("Verification succeeded")>>)
    ELSE InvalidRequest("Failed to fetch lemmas " \o result.error)

LemmasResponse(result) ==
    IF result.ok
    THEN CallToolSuccess(RenderLemmas(result.value))
    ELSE InvalidRequest("Failed to fetch lemmas " \o result.error)

ToolResponse(o, result) ==
    CASE o = "verify_repository" -> VerifyResponse(result)
      [] o = "verify_packages" -> VerifyResponse(result)
      [] o = "get_syntax_errors" -> SyntaxErrorsResponse(result)
      [] o = "get_lemmas" -> LemmasResponse(result)

(***************************************************************************)
(* Lines a verifier subprocess may print                                   *)
(***************************************************************************)

GoodSpan ==
    JObj([file_name |-> JStr("src/lib.rs"), line_start |-> JInt(3),
          column_start |-> JInt(5), line_end |-> JInt(3),
          column_end |-> JInt(9), is_primary |-> JBool(TRUE)])

\* A span without the required key file_name.
SpanNoFile ==
    JObj([line_start |-> JInt(7), column_start |-> JInt(1),
          line_end |-> JInt(7), column_end |-> JInt(2),
          is_primary |-> JBool(FALSE)])

CompilerMessage(message) ==
    JObj([reason |-> JStr("compiler-message"), message |-> message])

Message(level, text, spans) ==
    JObj([level |-> JStr(level), message |-> JStr(text), spans |-> spans])

NoiseLine == [notjson |-> "   Compiling foo v0.1.0 (/repo)"]
NumberLine == JInt(42)
NoReasonLine == JObj([message |-> Message("error", "no reason given", JArr(<<>>))])
BuildLine ==
    JObj([reason |-> JStr("build-finished"),
          message |-> Message("error", "build finished", JArr(<<>>))])
ReasonNotStringLine ==
    JObj([reason |-> JInt(1),
          message |-> Message("error", "reason is a number", JArr(<<>>))])

ErrMismatched ==
    JObj([reason |-> JStr("compiler-message"),
          package_id |-> JStr("foo 0.1.0"),
          target |-> JObj([name |-> JStr("foo"), kind |-> JArr(<<JStr("lib")>>)]),
          message |-> JObj([level |-> JStr("error"),
                            message |-> JStr("mismatched types"),
                            code |-> JStr("E0308"),
                            rendered |-> JStr("error[E0308]: mismatched types"),
                            spans |-> JArr(<<GoodSpan>>)])])
ErrRefinement ==
    CompilerMessage(Message("error", "refinement type error in bar", JArr(<<>>)))
WarnUnused ==
    CompilerMessage(Message("warning", "unused variable: x", JArr(<<GoodSpan>>)))

NoMessageLine == JObj([reason |-> JStr("compiler-message")])
NoLevelLine ==
    CompilerMessage(JObj([message |-> JStr("level is missing"), spans |-> JArr(<<>>)]))
LevelNotStringLine ==
    CompilerMessage(JObj([level |-> JInt(2), message |-> JStr("level is a number"),
                          spans |-> JArr(<<>>)]))
NoTextLine ==
    CompilerMessage(JObj([level |-> JStr("error"), spans |-> JArr(<<GoodSpan>>)]))
TextNotStringLine ==
    CompilerMessage(JObj([level |-> JStr("error"), message |-> JBool(TRUE),
                          spans |-> JArr(<<>>)]))
SpansNotArrayLine ==
    CompilerMessage(Message("error", "expected one of ; or }", JStr("none")))
SpansBadSpanLine ==
    CompilerMessage(Message("error", "cannot find value y",
                            JArr(<<GoodSpan, SpanNoFile>>)))

LemmaLine ==
    CompilerMessage(JObj([lemma_name |-> JStr("head_cons_eq"),
                          file_name |-> JStr("a.rs"),
                          start_line |-> JInt(1), start_col |-> JInt(0),
                          end_line |-> JInt(3), end_col |-> JInt(1)]))

\* A second lemma, whose numbers are all 0.
LemmaZeroLine ==
    CompilerMessage(JObj([lemma_name |-> JStr("nil_len"),
                          file_name |-> JStr("b.rs"),
                          start_line |-> JInt(0), start_col |-> JInt(0),
                          end_line |-> JInt(0), end_col |-> JInt(0)]))

\* The lemma record on a line whose reason is not compiler-message.
LemmaOtherReasonLine ==
    JObj([reason |-> JStr("build-finished"), message |-> LemmaLine.obj.message])

LemmaStrKeys == {"lemma_name", "file_name"}
LemmaIntKeys == {"start_line", "start_col", "end_line", "end_col"}

\* The object without one of its keys, and with a value of another type
\* under one of its keys.
Without(o, key) == JObj([k \in DOMAIN o.obj \ {key} |-> o.obj[k]])
Mistyped(o, key) ==
    JObj([o.obj EXCEPT ![key] = IF "str" \in DOMAIN @ THEN JInt(7) ELSE JStr("7")])

\* The first lemma line with one of the six fields missing, or of the wrong
\* type.
LemmaLackingLines ==
    {CompilerMessage(Without(LemmaLine.obj.message, k)) :
        k \in LemmaStrKeys \cup LemmaIntKeys}
LemmaMistypedLines ==
    {CompilerMessage(Mistyped(LemmaLine.obj.message, k)) :
        k \in LemmaStrKeys \cup LemmaIntKeys}

LemmaLines ==
    {LemmaLine, LemmaZeroLine, LemmaOtherReasonLine, NoiseLine, ErrMismatched}
        \cup LemmaLackingLines \cup LemmaMistypedLines

\* An error line with the given target.
TargetLine(target) ==
    JObj([reason |-> JStr("compiler-message"), target |-> target,
          message |-> Message("error", "mismatched types", JArr(<<GoodSpan>>))])

\* Targets whose kind is an array with a number after a string, is a string,
\* is missing, is an empty array; a target with a kind and no name.
TargetKindMixedLine ==
    TargetLine(JObj([name |-> JStr("foo"),
                     kind |-> JArr(<<JStr("lib"), JInt(7), JStr("bin")>>)]))
TargetKindNotArrayLine ==
    TargetLine(JObj([name |-> JStr("foo"), kind |-> JStr("lib")]))
TargetNoKindLine == TargetLine(JObj([name |-> JStr("foo")]))
TargetKindEmptyLine ==
    TargetLine(JObj([name |-> JStr("foo"), kind |-> JArr(<<>>)]))
TargetNoNameLine == TargetLine(JObj([kind |-> JArr(<<JStr("lib")>>)]))

\* A second well-formed span, not primary; that span without the key
\* is_primary; that span with a number under is_primary.
GoodSpanSecondary ==
    JObj([file_name |-> JStr("src/main.rs"), line_start |-> JInt(8),
          column_start |-> JInt(2), line_end |-> JInt(9),
          column_end |-> JInt(4), is_primary |-> JBool(FALSE)])
SpanNoPrimary == Without(GoodSpanSecondary, "is_primary")
SpanPrimaryNotBool ==
    JObj([GoodSpanSecondary.obj EXCEPT !["is_primary"] = JInt(0)])

SpansMissingPrimaryLine ==
    CompilerMessage(Message("error", "borrowed value does not live long enough",
                            JArr(<<GoodSpan, SpanNoPrimary, GoodSpanSecondary>>)))
SpansOnlyMissingPrimaryLine ==
    CompilerMessage(Message("error", "unresolved import", JArr(<<SpanNoPrimary>>)))
SpansPrimaryNotBoolLine ==
    CompilerMessage(Message("warning", "unused import",
                            JArr(<<GoodSpanSecondary, SpanPrimaryNotBool>>)))

TargetLines ==
    {TargetKindMixedLine, TargetKindNotArrayLine, TargetNoKindLine,
     TargetKindEmptyLine, TargetNoNameLine}
PrimaryLines ==
    {SpansMissingPrimaryLine, SpansOnlyMissingPrimaryLine, SpansPrimaryNotBoolLine}
FieldLines ==
    TargetLines \cup PrimaryLines \cup {ErrMismatched, NoiseLine, NoLevelLine}

\* Lines that are skipped before the message is looked at.
SkippedLines == {NoiseLine, NumberLine, NoReasonLine, BuildLine, ReasonNotStringLine}
\* compiler-message lines whose message has a string level and a string text.
GoodLines == {ErrMismatched, ErrRefinement, WarnUnused}
\* compiler-message lines whose message lacks a string level or a string text.
LackingLines == {NoLevelLine, LevelNotStringLine, NoTextLine, TextNotStringLine}
\* compiler-message lines whose message has a malformed spans field.
BadSpansLines == {SpansNotArrayLine, SpansBadSpanLine}

ParseLines ==
    SkippedLines \cup GoodLines \cup LackingLines \cup BadSpansLines
        \cup {NoMessageLine, LemmaLine}

\* The lines of the runs with several requests, and of the runs of one request.
CoreLines == {ErrMismatched}
RunLines == {NoiseLine, ErrMismatched, ErrRefinement, WarnUnused, LemmaLine}

ExitCodes == {0, 1}

NumRequests == 2
MaxLines == 2
MaxParseLen == 3
MaxDiags == 2
\* The room of a pipe, and the most a subprocess writes to stderr, in units
\* of the same size.
PipeCap == 1
MaxErr == 2

Reqs == 1..NumRequests

SeqsUpTo(S, n) == UNION {[1..k -> S] : k \in 0..n}

(***************************************************************************)
(* State                                                                   *)
(***************************************************************************)

VARIABLES
    pc,      \* where each request is: idle, lock, spawn, read, wait, done
    op,      \* the tool each request calls
    lock,    \* the holder of the runner's Mutex, 0 when it is free
    child,   \* the subprocess each request spawned: its state and exit code
    stream,  \* the lines each subprocess has written to its stdout so far
    output,  \* the local String `output` of the runner call of each request
    report,  \* what the runner call returned to the tool: None until it returns
    resp,    \* what the tool returned to the caller: None until it returns
    fault,   \* the step of the invocation that failed, "none" when none did
    steps,   \* the steps each request took: the spawn attempts it made, and
             \* whether it polled the stream, waited for the status, parsed
    errleft, \* what each subprocess has still to write to stderr before it exits
    errbuf,  \* what sits in the stderr pipe of each subprocess, which nobody reads
    pin,     \* an output buffer handed to parse_flux_output
    pout,    \* None, then Some of the diagnostics parsed from pin
    lout,    \* None, then Some of the lemmas parsed from pin
    cin,     \* a list of diagnostics handed to retain_only_syntax_errors
    cout,    \* None, then Some of the list it returned
    cagain   \* None, then Some of what it returned when handed cout

runVars == <<pc, op, lock, child, stream, output, report, resp, fault,
            steps, errleft, errbuf>>
pipeVars == <<errleft, errbuf>>
parseVars == <<pin, pout, lout>>
classVars == <<cin, cout, cagain>>
pureVars == <<pin, pout, lout, cin, cout, cagain>>
vars == <<pc, op, lock, child, stream, output, report, resp, fault,
          steps, errleft, errbuf,
          pin, pout, lout, cin, cout, cagain>>

NoChild == [st |-> "none", code |-> 0]

NoSteps == [spawn |-> 0, stream |-> FALSE, wait |-> FALSE, parse |-> FALSE]

\* FluxMcp::new(): a free lock and no request yet.
InitCalls ==
    /\ pc = [r \in Reqs |-> "idle"]
    /\ op = [r \in Reqs |-> "none"]
    /\ lock = 0
    /\ child = [r \in Reqs |-> NoChild]
    /\ stream = [r \in Reqs |-> <<>>]
    /\ output = [r \in Reqs |-> <<>>]
    /\ report = [r \in Reqs |-> None]
    /\ resp = [r \in Reqs |-> None]
    /\ fault = [r \in Reqs |-> "none"]
    /\ steps = [r \in Reqs |-> NoSteps]
    /\ errbuf = [r \in Reqs |-> 0]

\* The subprocesses write nothing to stderr.
InitQuiet == errleft = [r \in Reqs |-> 0]

InitRun == InitCalls /\ InitQuiet

InitParseIdle == pin = <<>> /\ pout = None /\ lout = None
InitClassIdle == cin = <<>> /\ cout = None /\ cagain = None

Init == InitRun /\ InitParseIdle /\ InitClassIdle

(***************************************************************************)
(* The requests (flux_mcp.rs calling flux_runner.rs)                       *)
(***************************************************************************)

\* A tool call arrives and reaches self.runner.lock().await.
Call(r, o) ==
    /\ pc[r] = "idle"
    /\ pc' = [pc EXCEPT ![r] = "lock"]
    /\ op' = [op EXCEPT ![r] = o]
    /\ UNCHANGED <<lock, child, stream, output, report, resp, fault, steps,
                   pipeVars, pureVars>>

\* lock().await returns the guard.
Acquire(r) ==
    /\ pc[r] = "lock"
    /\ lock = 0
    /\ lock' = r
    /\ pc' = [pc EXCEPT ![r] = "spawn"]
    /\ UNCHANGED <<op, child, stream, output, report, resp, fault, steps,
                   pipeVars, pureVars>>

\* Return with the guard kept alive after the tool has returned.
ReturnHoldingLock(r, result) ==
    /\ report' = [report EXCEPT ![r] = Some(result)]
    /\ output' = [output EXCEPT ![r] = <<>>]
    /\ resp' = [resp EXCEPT ![r] = Some(ToolResponse(op[r], result))]
    /\ lock' = lock
    /\ pc' = [pc EXCEPT ![r] = "done"]

\* The runner call returns `result`, which drops its local `output`; the
\* tool maps the result to its response and returns, which drops the guard.
Return(r, result) ==
    /\ report' = [report EXCEPT ![r] = Some(result)]
    /\ output' = [output EXCEPT ![r] = <<>>]
    /\ resp' = [resp EXCEPT ![r] = Some(ToolResponse(op[r], result))]
    /\ lock' = 0
    /\ pc' = [pc EXCEPT ![r] = "done"]

\* SpawnOk with `output` starting from what the subprocess of another
\* request, if it ran, had printed.
SpawnOkStaleOutput(r) ==
    /\ pc[r] = "spawn"
    /\ child' = [child EXCEPT ![r] = [st |-> "running", code |-> 0]]
    /\ \E q \in Reqs \ {r} : output' = [output EXCEPT ![r] = stream[q]]
    /\ pc' = [pc EXCEPT ![r] = "read"]
    /\ steps' = [steps EXCEPT ![r].spawn = @ + 1]
    /\ UNCHANGED <<op, lock, stream, report, resp, fault, pipeVars, pureVars>>

\* cmd.spawn() succeeds; stdout is piped, so child.stdout.take() is Some and
\* the call goes on with an empty `output`.
SpawnOk(r) ==
    /\ pc[r] = "spawn"
    /\ child' = [child EXCEPT ![r] = [st |-> "running", code |-> 0]]
    /\ output' = [output EXCEPT ![r] = <<>>]
    /\ pc' = [pc EXCEPT ![r] = "read"]
    /\ steps' = [steps EXCEPT ![r].spawn = @ + 1]
    /\ UNCHANGED <<op, lock, stream, report, resp, fault, pipeVars, pureVars>>

\* SpawnFail going back to cmd.spawn() once instead of returning.
SpawnFailRetry(r) ==
    /\ pc[r] = "spawn"
    /\ steps[r].spawn < 2
    /\ fault' = [fault EXCEPT ![r] = "launch"]
    /\ steps' = [steps EXCEPT ![r].spawn = @ + 1]
    /\ UNCHANGED <<pc, op, lock, child, stream, output, report, resp,
                   pipeVars, pureVars>>

\* cmd.spawn() fails: map_err and `?`.
SpawnFail(r) ==
    /\ pc[r] = "spawn"
    /\ fault' = [fault EXCEPT ![r] = "launch"]
    /\ Return(r, Err(SpawnError))
    /\ steps' = [steps EXCEPT ![r].spawn = @ + 1]
    /\ UNCHANGED <<op, child, stream, pipeVars, pureVars>>

RECURSIVE SumLen(_, _)
SumLen(f, S) ==
    IF S = {} THEN 0
    ELSE LET x == CHOOSE y \in S : TRUE IN Len(f[x]) + SumLen(f, S \ {x})

\* The number of lines all the subprocesses have printed so far.
Written == SumLen(stream, Reqs)

\* The subprocess prints a line; it can only while this process holds the
\* read end of the pipe.
ChildWrite(r, line) ==
    /\ child[r].st = "running"
    /\ pc[r] = "read"
    /\ Written < MaxLines
    /\ stream' = [stream EXCEPT ![r] = Append(@, line)]
    /\ UNCHANGED <<pc, op, lock, child, output, report, resp, fault, steps,
                   pipeVars, pureVars>>

\* The subprocess writes to stderr, whose read end this process holds in
\* `child` and never reads; the write blocks while the pipe is full.
ChildWriteErr(r) ==
    /\ child[r].st = "running"
    /\ pc[r] = "read"
    /\ errleft[r] > 0
    /\ errbuf[r] < PipeCap
    /\ errleft' = [errleft EXCEPT ![r] = @ - 1]
    /\ errbuf' = [errbuf EXCEPT ![r] = @ + 1]
    /\ UNCHANGED <<pc, op, lock, child, stream, output, report, resp, fault,
                   steps, pureVars>>

\* The subprocess has written all it had to and exits, which closes its
\* ends of the pipes.
ChildExit(r, code) ==
    /\ child[r].st = "running"
    /\ errleft[r] = 0
    /\ child' = [child EXCEPT ![r] = [st |-> "exited", code |-> code]]
    /\ UNCHANGED <<pc, op, lock, stream, output, report, resp, fault, steps,
                   pipeVars, pureVars>>

\* ReadLine putting the line at the front of `output`.
ReadLineFront(r) ==
    /\ pc[r] = "read"
    /\ Len(output[r]) < Len(stream[r])
    /\ output' = [output EXCEPT ![r] = <<stream[r][Len(@) + 1]>> \o @]
    /\ steps' = [steps EXCEPT ![r].stream = TRUE]
    /\ UNCHANGED <<pc, op, lock, child, stream, report, resp, fault,
                   pipeVars, pureVars>>

\* One iteration of `for line in reader.lines()`: push_str and push('\n').
ReadLine(r) ==
    /\ pc[r] = "read"
    /\ Len(output[r]) < Len(stream[r])
    /\ output' = [output EXCEPT ![r] = Append(@, stream[r][Len(@) + 1])]
    /\ steps' = [steps EXCEPT ![r].stream = TRUE]
    /\ UNCHANGED <<pc, op, lock, child, stream, report, resp, fault,
                   pipeVars, pureVars>>

\* reader.lines() yields an Err (an I/O error, or bytes that are not UTF-8):
\* map_err and `?`; child is dropped, neither killed nor waited for.
ReadFail(r) ==
    /\ pc[r] = "read"
    /\ fault' = [fault EXCEPT ![r] = "stream"]
    /\ Return(r, Err(ReadError(RunnerMethod(op[r]))))
    /\ steps' = [steps EXCEPT ![r].stream = TRUE]
    /\ UNCHANGED <<op, child, stream, pipeVars, pureVars>>

\* reader.lines() ends: every line was read and the write end is closed.
ReadEof(r) ==
    /\ pc[r] = "read"
    /\ Len(output[r]) = Len(stream[r])
    /\ child[r].st = "exited"
    /\ pc' = [pc EXCEPT ![r] = "wait"]
    /\ steps' = [steps EXCEPT ![r].stream = TRUE]
    /\ UNCHANGED <<op, lock, child, stream, output, report, resp, fault,
                   pipeVars, pureVars>>

\* child.wait() gives the status; the output is parsed and the call returns.
WaitOk(r) ==
    /\ pc[r] = "wait"
    /\ child[r].st = "exited"
    /\ Return(r, RunnerReturn(RunnerMethod(op[r]), output[r], child[r].code))
    /\ steps' = [steps EXCEPT ![r].wait = TRUE, ![r].parse = TRUE]
    /\ UNCHANGED <<op, child, stream, fault, pipeVars, pureVars>>

\* child.wait() fails: map_err and `?`.
WaitFail(r) ==
    /\ pc[r] = "wait"
    /\ fault' = [fault EXCEPT ![r] = "wait"]
    /\ Return(r, Err(WaitError))
    /\ steps' = [steps EXCEPT ![r].wait = TRUE]
    /\ UNCHANGED <<op, child, stream, pipeVars, pureVars>>

\* Concurrent requests.
Next ==
    \E r \in Reqs :
        \/ \E o \in Ops : Call(r, o)
        \/ Acquire(r)
        \/ SpawnOk(r)
        \/ SpawnFail(r)
        \/ \E line \in CoreLines : ChildWrite(r, line)
        \/ \E code \in ExitCodes : ChildExit(r, code)
        \/ ReadLine(r)
        \/ ReadFail(r)
        \/ ReadEof(r)
        \/ WaitOk(r)
        \/ WaitFail(r)

Spec == Init /\ [][Next]_vars

\* One request, whose subprocess prints any kind of line.
NextOne ==
    \/ \E o \in Ops : Call(1, o)
    \/ Acquire(1)
    \/ SpawnOk(1)
    \/ SpawnFail(1)
    \/ \E line \in RunLines : ChildWrite(1, line)
    \/ \E code \in ExitCodes : ChildExit(1, code)
    \/ ReadLine(1)
    \/ ReadFail(1)
    \/ ReadEof(1)
    \/ WaitOk(1)
    \/ WaitFail(1)

SpecOne == Init /\ [][NextOne]_vars

\* Two requests, whose subprocesses print different lines.
LinesOf(r) ==
    IF r = 1 THEN {ErrMismatched, LemmaLine} ELSE {WarnUnused, LemmaZeroLine}

NextTwo ==
    \E r \in {1, NumRequests} :
        \/ \E o \in Ops : Call(r, o)
        \/ Acquire(r)
        \/ SpawnOk(r)
        \/ SpawnFail(r)
        \/ \E line \in LinesOf(r) : ChildWrite(r, line)
        \/ \E code \in ExitCodes : ChildExit(r, code)
        \/ ReadLine(r)
        \/ ReadFail(r)
        \/ ReadEof(r)
        \/ WaitOk(r)
        \/ WaitFail(r)

SpecTwo == Init /\ [][NextTwo]_vars

\* One request, whose subprocess writes to stderr as well.
InitPipes ==
    /\ InitCalls /\ InitParseIdle /\ InitClassIdle
    /\ errleft \in {[r \in Reqs |-> IF r = 1 THEN e ELSE 0] : e \in 0..MaxErr}

NextPipes ==
    \/ \E o \in Ops : Call(1, o)
    \/ Acquire(1)
    \/ SpawnOk(1)
    \/ SpawnFail(1)
    \/ \E line \in CoreLines : ChildWrite(1, line)
    \/ ChildWriteErr(1)
    \/ \E code \in ExitCodes : ChildExit(1, code)
    \/ ReadLine(1)
    \/ ReadFail(1)
    \/ ReadEof(1)
    \/ WaitOk(1)
    \/ WaitFail(1)

SpecPipes == InitPipes /\ [][NextPipes]_vars

(***************************************************************************)
(* The two parsers applied to any buffer                                   *)
(***************************************************************************)

InitParse ==
    /\ InitRun /\ InitClassIdle
    /\ pin \in SeqsUpTo(ParseLines, MaxParseLen)
    /\ pout = None
    /\ lout = None

Parse ==
    /\ pout = None
    /\ pout' = Some(parse_flux_output(pin))
    /\ UNCHANGED <<runVars, pin, lout, classVars>>

ParseLemmas ==
    /\ lout = None
    /\ lout' = Some(parse_flux_lemmas(pin))
    /\ UNCHANGED <<runVars, pin, pout, classVars>>

NextParse == Parse \/ ParseLemmas
SpecParse == InitParse /\ [][NextParse]_vars

\* parse_flux_lemmas applied to any buffer of lemma-dump lines.
InitLemmas ==
    /\ InitRun /\ InitClassIdle
    /\ pin \in SeqsUpTo(LemmaLines, MaxParseLen)
    /\ pout = None
    /\ lout = None

\* parse_flux_output applied to any buffer of lines with targets and spans.
InitFields ==
    /\ InitRun /\ InitClassIdle
    /\ pin \in SeqsUpTo(FieldLines, MaxParseLen)
    /\ pout = None
    /\ lout = None

NextFields == Parse
SpecFields == InitFields /\ [][NextFields]_vars

NextLemmas == ParseLemmas
SpecLemmas == InitLemmas /\ [][NextLemmas]_vars

(***************************************************************************)
(* retain_only_syntax_errors applied to any list of diagnostics            *)
(***************************************************************************)

\* A Diagnostic with the given level and message text.
Diag(level, text) ==
    [message |-> [level |-> level, message |-> text, code |-> None,
                  rendered |-> None, spans |-> <<>>],
     package_id |-> None, target |-> None]

\* Message texts that hold one of the markers, at the start, inside or at
\* the end.
MarkerTexts ==
    { "error jumping to join point",
      "assignment might be unsafe here",
      "call to function that may panic",
      "refinement type error in bar",
      "possible division by zero in foo",
      "possible reminder with a divisor of zero",
      "assertion might fail",
      "a parameter inference error at function call",
      "type invariant may not hold (when place is folded)",
      "cannot prove this code safe",
      "arithmetic operation may overflow",
      "arithmetic operation may underflow",
      "unsupported type in function call",
      "loop invariant cannot be proven",
      "error in associated refinement" }

\* Message texts that hold none: the second to last differ from a marker in
\* one character, the last is empty.
PlainTexts ==
    { "mismatched types",
      "Refinement type error",
      "arithmetic operation may overflo",
      "possible remainder with a divisor of zero",
      "" }

ClassifierDiags ==
    {Diag("error", t) : t \in MarkerTexts \cup PlainTexts}
        \cup {Diag("warning", t) : t \in {"mismatched types", "assertion might fail"}}
        \cup {Diag("Error", "mismatched types"), Diag("note", "mismatched types")}

InitClassify ==
    /\ InitRun /\ InitParseIdle
    /\ cin \in SeqsUpTo(ClassifierDiags, MaxDiags)
    /\ cout = None
    /\ cagain = None

Classify ==
    /\ cout = None
    /\ cout' = Some(retain_only_syntax_errors(cin))
    /\ UNCHANGED <<runVars, parseVars, cin, cagain>>

\* The list it returned is handed to it again.
ClassifyAgain ==
    /\ cout # None
    /\ cagain = None
    /\ cagain' = Some(retain_only_syntax_errors(cout[1]))
    /\ UNCHANGED <<runVars, parseVars, cin, cout>>

NextClassify == Classify \/ ClassifyAgain
SpecClassify == InitClassify /\ [][NextClassify]_vars

(***************************************************************************)
(* Properties                                                              *)
(***************************************************************************)

\* The subprocesses that were spawned and have not exited.
InFlight == {r \in Reqs : child[r].st = "running"}

\* The number of lines of a stream that are compiler-message lines whose
\* message has a string level and a string text.
RECURSIVE GoodCount(_)
GoodCount(lines) ==
    IF lines = <<>> THEN 0
    ELSE (IF Head(lines) \in GoodLines THEN 1 ELSE 0) + GoodCount(Tail(lines))

\* C1: across any interleaving of the four tools and after any sequence of
\* call outcomes, at most one verifier subprocess is in flight (spawned and
\* not yet exited), and only the holder of the runner lock is between its
\* spawn and its return.
C1_AtMostOneInFlight ==
    /\ Cardinality(InFlight) <= 1
    /\ \A r \in Reqs : pc[r] \in {"spawn", "read", "wait"} => lock = r

\* C2: the success field of a report of verify_repository or verify_package
\* is the exit status being successful, whatever the diagnostics are, and
\* every diagnostic of the stream is in the report.
C2_ExitStatusAuthority ==
    \A r \in Reqs :
        (report[r] # None /\ op[r] # "get_lemmas" /\ fault[r] = "none") =>
            /\ report[r][1].ok
            /\ report[r][1].value.success = (child[r].code = 0)
            /\ Len(report[r][1].value.diagnostics) = GoodCount(stream[r])

\* A subprocess printed one error-level diagnostic line and exited 0: success
\* is true and the report has that one diagnostic.
C2_Witness ==
    \E r \in Reqs :
        /\ report[r] # None
        /\ op[r] = "verify_repository"
        /\ fault[r] = "none"
        /\ stream[r] = <<ErrMismatched>>
        /\ child[r] = [st |-> "exited", code |-> 0]
        /\ report[r][1].value.success = TRUE
        /\ Len(report[r][1].value.diagnostics) = 1
        /\ report[r][1].value.diagnostics[1].message.level = "error"

\* C3: a request returns an error exactly when its launch, stream-read or
\* wait step failed; otherwise it returns a success response, with
\* success = false when the exit status is not zero and with the diagnostics
\* of the stream, whatever the subprocess printed.
C3_OnlyInfrastructureErrors ==
    \A r \in Reqs :
        pc[r] = "done" =>
            /\ resp[r] # None
            /\ (resp[r][1].kind = "invalid_request")
                   <=> (fault[r] \in {"launch", "stream", "wait"})
            /\ fault[r] = "none" =>
                   /\ resp[r][1].kind = "success"
                   /\ report[r][1].ok
                   /\ op[r] # "get_lemmas" =>
                          /\ child[r].code # 0 => ~report[r][1].value.success
                          /\ Len(report[r][1].value.diagnostics)
                                 = GoodCount(stream[r])

\* A subprocess printed a line that is not JSON and an error diagnostic and
\* exited 1: the request got a success response.
C3_Witness ==
    \E r \in Reqs :
        /\ pc[r] = "done"
        /\ fault[r] = "none"
        /\ op[r] = "verify_packages"
        /\ stream[r] = <<NoiseLine, ErrRefinement>>
        /\ child[r] = [st |-> "exited", code |-> 1]
        /\ resp[r][1].kind = "success"
        /\ ~report[r][1].value.success
        /\ Len(report[r][1].value.diagnostics) = 1

\* A sequence without its i-th element.
RemoveAt(s, i) == SubSeq(s, 1, i - 1) \o SubSeq(s, i + 1, Len(s))

\* The value under key k of the JSON object o is a string.
HasStr(o, k) ==
    "obj" \in DOMAIN o /\ k \in DOMAIN o.obj /\ "str" \in DOMAIN o.obj[k]

\* The line is JSON with a reason field equal to "compiler-message".
IsCompilerMessage(line) ==
    /\ "obj" \in DOMAIN line
    /\ "reason" \in DOMAIN line.obj
    /\ line.obj.reason = [str |-> "compiler-message"]

\* The message of a compiler-message line lacks a string level or a string
\* message text.
LacksLevelOrText(line) ==
    ~ /\ "message" \in DOMAIN line.obj
      /\ HasStr(line.obj.message, "level")
      /\ HasStr(line.obj.message, "message")

\* C4: a line that is not valid JSON, or is JSON without a reason equal to
\* "compiler-message", gives no diagnostic and no lemma, and the records of
\* the other lines are those of the stream without that line.
C4_SkippedLinesIgnored ==
    /\ pout # None =>
           /\ \A i \in 1..Len(pin) :
                  ~IsCompilerMessage(pin[i]) =>
                      pout[1] = parse_flux_output(RemoveAt(pin, i))
           /\ (\A i \in 1..Len(pin) : ~IsCompilerMessage(pin[i])) => pout[1] = <<>>
           /\ Len(pout[1]) <= Cardinality({i \in 1..Len(pin) : IsCompilerMessage(pin[i])})
    /\ lout # None =>
           /\ \A i \in 1..Len(pin) :
                  ~IsCompilerMessage(pin[i]) =>
                      lout[1] = parse_flux_lemmas(RemoveAt(pin, i))
           /\ (\A i \in 1..Len(pin) : ~IsCompilerMessage(pin[i])) => lout[1] = <<>>
           /\ Len(lout[1]) <= Cardinality({i \in 1..Len(pin) : IsCompilerMessage(pin[i])})

\* A line that is not JSON came before a diagnostic line, and the diagnostic
\* of the second line was still produced.
C4_Witness ==
    /\ pin = <<NoiseLine, ErrRefinement>>
    /\ pout # None
    /\ lout # None
    /\ Len(pout[1]) = 1
    /\ pout[1][1].message.message = "refinement type error in bar"
    /\ lout[1] = <<>>

\* The message texts of the compiler-message lines that have a string level
\* and a string text, in the order of the lines.
RECURSIVE KeptTexts(_)
KeptTexts(lines) ==
    IF lines = <<>> THEN <<>>
    ELSE (IF IsCompilerMessage(Head(lines)) /\ ~LacksLevelOrText(Head(lines))
          THEN <<Head(lines).obj.message.obj.message.str>>
          ELSE <<>>)
         \o KeptTexts(Tail(lines))

\* C5: in a stream of compiler-message lines, each line whose message lacks
\* a string level or a string text is left out, the list has one diagnostic
\* for each other line, and those are not affected.
C5_LackingLinesDropped ==
    (pout # None /\ \A i \in 1..Len(pin) : IsCompilerMessage(pin[i])) =>
        /\ Len(pout[1]) = Len(pin)
               - Cardinality({i \in 1..Len(pin) : LacksLevelOrText(pin[i])})
        /\ [j \in 1..Len(pout[1]) |-> pout[1][j].message.message] = KeptTexts(pin)
        /\ \A i \in 1..Len(pin) :
               LacksLevelOrText(pin[i]) =>
                   pout[1] = parse_flux_output(RemoveAt(pin, i))

\* A message without level came before a complete one: one diagnostic.
C5_Witness ==
    /\ pin = <<NoLevelLine, ErrMismatched>>
    /\ pout # None
    /\ Len(pout[1]) = 1
    /\ pout[1][1].message.message = "mismatched types"

\* A span object with the six keys parse_spans asks for.
SpanWellFormed(span) ==
    /\ "obj" \in DOMAIN span
    /\ {"file_name", "line_start", "column_start", "line_end", "column_end",
        "is_primary"} \subseteq DOMAIN span.obj
    /\ "str" \in DOMAIN span.obj.file_name

\* The message of a compiler-message line has a spans field that is not an
\* array, or an array with a span that lacks a required key.
MalformedSpans(line) ==
    /\ "message" \in DOMAIN line.obj
    /\ "obj" \in DOMAIN line.obj.message
    /\ "spans" \in DOMAIN line.obj.message.obj
    /\ LET spans == line.obj.message.obj.spans
       IN  \/ "arr" \notin DOMAIN spans
           \/ \E k \in 1..Len(spans.arr) : ~SpanWellFormed(spans.arr[k])

\* C6 as stated: a compiler-message line whose message has a malformed spans
\* field gives no diagnostic, and the lines after it are still parsed.
C6_MalformedSpansDropLine ==
    pout # None =>
        \A i \in 1..Len(pin) :
            (IsCompilerMessage(pin[i]) /\ MalformedSpans(pin[i])) =>
                pout[1] = parse_flux_output(RemoveAt(pin, i))

\* C6 as amended: a compiler-message line whose message has a string level
\* and text and a malformed spans field gives a diagnostic with that level
\* and text and an empty span sequence, between the diagnostics of the lines
\* before it and those of the lines after it.
C6_MalformedSpansGiveNoSpans ==
    pout # None =>
        \A i \in 1..Len(pin) :
            (/\ IsCompilerMessage(pin[i])
             /\ MalformedSpans(pin[i])
             /\ ~LacksLevelOrText(pin[i])) =>
                LET before == parse_flux_output(SubSeq(pin, 1, i - 1))
                    after == parse_flux_output(SubSeq(pin, i + 1, Len(pin)))
                    k == Len(before) + 1
                IN  /\ Len(pout[1]) = Len(before) + 1 + Len(after)
                    /\ SubSeq(pout[1], 1, k - 1) = before
                    /\ SubSeq(pout[1], k + 1, Len(pout[1])) = after
                    /\ pout[1][k].message.spans = <<>>
                    /\ pout[1][k].message.level
                           = pin[i].obj.message.obj.level.str
                    /\ pout[1][k].message.message
                           = pin[i].obj.message.obj.message.str

\* A message with a span lacking file_name came before a well-formed one:
\* two diagnostics, the first without spans.
C6_Witness ==
    /\ pin = <<SpansBadSpanLine, ErrMismatched>>
    /\ pout # None
    /\ Len(pout[1]) = 2
    /\ pout[1][1].message.message = "cannot find value y"
    /\ pout[1][1].message.spans = <<>>
    /\ Len(pout[1][2].message.spans) = 1

\* The catalogue of verifier-internal phrases.
CataloguePhrases ==
    { "error jumping to join point", "assignment might be unsafe",
      "call to function that may panic", "refinement type error",
      "possible division by zero", "possible reminder with a divisor of zero",
      "assertion might fail", "parameter inference error at function call",
      "type invariant may not hold (when place is folded)",
      "cannot prove this code safe", "arithmetic operation may overflow",
      "arithmetic operation may underflow", "unsupported type in function call",
      "invariant cannot be proven", "associated refinement" }

\* The phrase is a substring of the text.
HasPhrase(text, phrase) ==
    \E skip \in 0..Len(text) :
        /\ skip + Len(phrase) <= Len(text)
        /\ SubSeq(text, skip + 1, skip + Len(phrase)) = phrase

\* The level is "error" and the text holds no catalogue phrase.
PassesFilter(diag) ==
    /\ diag.message.level = "error"
    /\ \A phrase \in CataloguePhrases : ~HasPhrase(diag.message.message, phrase)

\* C7: retain_only_syntax_errors returns exactly the diagnostics whose level
\* is "error" and whose text holds none of the 15 catalogue phrases, in the
\* order of the input and unmodified; no warning is kept.
C7_ClassifierKeepsPlainErrors ==
    cout # None =>
        /\ Cardinality(CataloguePhrases) = 15
        /\ cout[1] = SelectSeq(cin, PassesFilter)
        /\ \A j \in 1..Len(cout[1]) : cout[1][j].message.level # "warning"

\* A warning, with a text that holds no phrase, came before a plain error:
\* only the error was kept.
C7_Witness ==
    /\ cin = <<Diag("warning", "mismatched types"), Diag("error", "mismatched types")>>
    /\ cout = Some(<<Diag("error", "mismatched types")>>)

\* C8: the diagnostics of a report are those of the lines of the
\* subprocess's stdout, in the order the lines were printed, one for each
\* matching line, identical lines included.
C8_DiagnosticsInStreamOrder ==
    \A r \in Reqs :
        (report[r] # None /\ fault[r] = "none" /\ op[r] # "get_lemmas") =>
            LET diagnostics == report[r][1].value.diagnostics
            IN  [j \in 1..Len(diagnostics) |-> diagnostics[j].message.message]
                    = KeptTexts(stream[r])

\* The subprocess printed the same diagnostic line twice: two entries.
C8_Witness ==
    \E r \in Reqs :
        /\ report[r] # None
        /\ fault[r] = "none"
        /\ op[r] = "verify_repository"
        /\ stream[r] = <<ErrMismatched, ErrMismatched>>
        /\ Len(report[r][1].value.diagnostics) = 2
        /\ report[r][1].value.diagnostics[1] = report[r][1].value.diagnostics[2]

\* C9: a success response of verify_repository or verify_packages has one
\* text item for each diagnostic of the report, in the report's order, and
\* then one summary item, "Verification Succeeded" when success is true and
\* "Verification Failed" otherwise, also when there is no diagnostic.
C9_DiagnosticsThenSummary ==
    \A r \in Reqs :
        (/\ pc[r] = "done"
         /\ op[r] \in {"verify_repository", "verify_packages"}
         /\ resp[r][1].kind = "success") =>
            LET content == resp[r][1].content
                diagnostics == report[r][1].value.diagnostics
            IN  /\ Len(content) = Len(diagnostics) + 1
                /\ \A j \in 1..Len(diagnostics) :
                       content[j] = [type |-> "text", text |-> SerializeDiagnostic(diagnostics[j])]
                /\ content[Len(content)] =
                       [type |-> "text",
                        text |-> IF report[r][1].value.success
                                 THEN "Verification Succeeded"
                                 ELSE "Verification Failed"]

\* A warning and an error were printed before exit 1: two items and then
\* "Verification Failed".
C9_Witness ==
    \E r \in Reqs :
        /\ pc[r] = "done"
        /\ op[r] = "verify_repository"
        /\ stream[r] = <<WarnUnused, ErrRefinement>>
        /\ child[r].code = 1
        /\ resp[r][1].kind = "success"
        /\ Len(resp[r][1].content) = 3
        /\ resp[r][1].content[2].text =
               "{\"message\":{\"level\":\"error\",\"message\":\"refinement type error in bar\",\"code\":null,\"rendered\":null,\"spans\":[]},\"package_id\":null,\"target\":null}"
        /\ resp[r][1].content[3].text = "Verification Failed"

\* The number of lines that give an error-level diagnostic whose text holds
\* no catalogue phrase.
RECURSIVE PlainErrorCount(_)
PlainErrorCount(lines) ==
    IF lines = <<>> THEN 0
    ELSE (IF /\ IsCompilerMessage(Head(lines))
             /\ ~LacksLevelOrText(Head(lines))
             /\ Head(lines).obj.message.obj.level.str = "error"
             /\ \A phrase \in CataloguePhrases :
                    ~HasPhrase(Head(lines).obj.message.obj.message.str, phrase)
          THEN 1 ELSE 0) + PlainErrorCount(Tail(lines))

FoundText(n) ==
    CASE n = 0 -> "Found 0 syntax errors"
      [] n = 1 -> "Found 1 syntax errors"
      [] n = 2 -> "Found 2 syntax errors"
      [] n = 3 -> "Found 3 syntax errors"
      [] n = 4 -> "Found 4 syntax errors"
      [] OTHER -> "Found more syntax errors"

\* C10: a success response of get_syntax_errors has one text item for each
\* diagnostic the classifier keeps and then "Found N syntax errors", N being
\* the number of items before it; it is decided by the stream alone, not by
\* the exit status; one "refinement type error in bar" error and exit 1 give
\* just "Found 0 syntax errors".
C10_SyntaxErrorsThenCount ==
    \A r \in Reqs :
        (pc[r] = "done" /\ op[r] = "get_syntax_errors" /\ fault[r] = "none") =>
            LET content == resp[r][1].content
                kept == SelectSeq(report[r][1].value.diagnostics, PassesFilter)
            IN  /\ resp[r][1].kind = "success"
                /\ Len(content) = Len(kept) + 1
                /\ \A j \in 1..Len(kept) :
                       content[j] = [type |-> "text", text |-> SerializeDiagnostic(kept[j])]
                /\ content[Len(content)] =
                       [type |-> "text", text |-> FoundText(Len(content) - 1)]
                /\ Len(content) - 1 = PlainErrorCount(stream[r])
                /\ stream[r] = <<ErrRefinement>> =>
                       content = <<[type |-> "text", text |-> "Found 0 syntax errors"]>>

\* The scenario of the claim: the refinement error line, then exit 1.
C10_Witness ==
    \E r \in Reqs :
        /\ pc[r] = "done"
        /\ op[r] = "get_syntax_errors"
        /\ fault[r] = "none"
        /\ stream[r] = <<ErrRefinement>>
        /\ child[r] = [st |-> "exited", code |-> 1]
        /\ resp[r][1].kind = "success"
        /\ resp[r][1].content = <<[type |-> "text", text |-> "Found 0 syntax errors"]>>

\* C11: retain_only_syntax_errors applied to its own output returns that
\* output unchanged, for every list of diagnostics.
C11_ClassifierIdempotent ==
    cagain # None => cagain = cout

\* A verification error came before a plain error: the plain error was
\* kept, and kept again when the list of one was classified.
C11_Witness ==
    /\ cin = <<Diag("error", "refinement type error in bar"),
               Diag("error", "mismatched types")>>
    /\ cout = Some(<<Diag("error", "mismatched types")>>)
    /\ cagain = Some(<<Diag("error", "mismatched types")>>)

\* The line is a compiler-message line whose message has the six fields of a
\* lemma, the two names strings and the four positions integers.
IsLemmaLine(line) ==
    /\ IsCompilerMessage(line)
    /\ "message" \in DOMAIN line.obj
    /\ "obj" \in DOMAIN line.obj.message
    /\ \A k \in LemmaStrKeys :
          k \in DOMAIN line.obj.message.obj /\ "str" \in DOMAIN line.obj.message.obj[k]
    /\ \A k \in LemmaIntKeys :
          k \in DOMAIN line.obj.message.obj /\ "int" \in DOMAIN line.obj.message.obj[k]

\* The lemma that carries the values of such a line.
LemmaOf(line) ==
    LET m == line.obj.message.obj
    IN  [name |-> m.lemma_name.str, file_name |-> m.file_name.str,
         start_line |-> m.start_line.int, start_col |-> m.start_col.int,
         end_line |-> m.end_line.int, end_col |-> m.end_col.int]

\* C12: the lemma list holds, in stream order, exactly one lemma for each
\* compiler-message line whose message has string lemma_name and file_name
\* and integer start_line, start_col, end_line and end_col, carrying those
\* values; a line with one of the six missing or of the wrong type gives no
\* lemma (no number is defaulted to 0) and leaves the other lines' lemmas.
C12_LemmasOfWellFormedLines ==
    lout # None =>
        LET kept == SelectSeq(pin, IsLemmaLine)
        IN  /\ Len(lout[1]) = Len(kept)
            /\ \A j \in 1..Len(kept) : lout[1][j] = LemmaOf(kept[j])

\* A lemma line, the same line without start_col, and the lemma whose
\* numbers are 0: the first and the third gave a lemma.
C12_Witness ==
    /\ pin = <<LemmaLine, CompilerMessage(Without(LemmaLine.obj.message, "start_col")),
               LemmaZeroLine>>
    /\ lout = Some(<<[name |-> "head_cons_eq", file_name |-> "a.rs",
                      start_line |-> 1, start_col |-> 0,
                      end_line |-> 3, end_col |-> 1],
                     [name |-> "nil_len", file_name |-> "b.rs",
                      start_line |-> 0, start_col |-> 0,
                      end_line |-> 0, end_col |-> 0]>>)

\* C13: get_lemmas returns an error only when the launch, the stream or the
\* wait failed; otherwise it returns the lemmas parsed from the stream
\* whatever the exit status, and the response holds one text item for each
\* lemma and nothing else, so no item when there is no lemma.
C13_LemmasWhateverTheStatus ==
    \A r \in Reqs :
        (pc[r] = "done" /\ op[r] = "get_lemmas") =>
            LET kept == SelectSeq(stream[r], IsLemmaLine)
            IN  /\ (~report[r][1].ok) <=> (fault[r] \in {"launch", "stream", "wait"})
                /\ (resp[r][1].kind = "invalid_request") <=> ~report[r][1].ok
                /\ fault[r] = "none" =>
                       /\ Len(report[r][1].value) = Len(kept)
                       /\ \A j \in 1..Len(kept) :
                              report[r][1].value[j] = LemmaOf(kept[j])
                       /\ resp[r][1].kind = "success"
                       /\ Len(resp[r][1].content) = Len(kept)
                       /\ \A j \in 1..Len(kept) :
                              resp[r][1].content[j]
                                  = [type |-> "text",
                                     text |-> SerializeLemma(LemmaOf(kept[j]))]

\* A lemma dump that printed a line that is not JSON and one lemma and
\* exited 1: the response is that lemma alone.
C13_Witness ==
    \E r \in Reqs :
        /\ pc[r] = "done"
        /\ op[r] = "get_lemmas"
        /\ fault[r] = "none"
        /\ stream[r] = <<NoiseLine, LemmaLine>>
        /\ child[r] = [st |-> "exited", code |-> 1]
        /\ resp[r][1].kind = "success"
        /\ resp[r][1].content =
               <<[type |-> "text",
                  text |-> "{\"name\":\"head_cons_eq\",\"file_name\":\"a.rs\",\"start_line\":1,\"start_col\":0,\"end_line\":3,\"end_col\":1}"]>>

\* C14: when the subprocess cannot be started the call has ended, after one
\* spawn attempt and no stream, wait or parse step; the request spawns no
\* second time, and the tool returns an invalid-request error that carries
\* the reason.
C14_LaunchFailureIsFinal ==
    \A r \in Reqs :
        fault[r] = "launch" =>
            /\ pc[r] = "done"
            /\ steps[r] = [spawn |-> 1, stream |-> FALSE, wait |-> FALSE,
                           parse |-> FALSE]
            /\ child[r] = NoChild
            /\ stream[r] = <<>>
            /\ report[r] = Some([ok |-> FALSE, error |-> "Failed to run Flux process"])
            /\ resp[r][1].kind = "invalid_request"
            /\ resp[r][1].content = <<>>
            /\ HasPhrase(resp[r][1].message, "Failed to run Flux process")

\* verify_repository on a machine where the verifier cannot be started.
C14_Witness ==
    \E r \in Reqs :
        /\ op[r] = "verify_repository"
        /\ fault[r] = "launch"
        /\ pc[r] = "done"
        /\ steps[r].spawn = 1
        /\ lock = 0
        /\ resp[r] = Some([kind |-> "invalid_request", content |-> <<>>,
                           message |-> "Verification failed Failed to run Flux process"])

\* The read of the runner call blocks: it has read every line the
\* subprocess printed and the subprocess still holds the write end.
ReaderBlocked(r) ==
    /\ pc[r] = "read"
    /\ Len(output[r]) = Len(stream[r])
    /\ child[r].st = "running"

\* The subprocess blocks: all it has left to do before it exits is to write
\* to stderr, and the stderr pipe is full.
WriterBlocked(r) ==
    /\ child[r].st = "running"
    /\ Written = MaxLines
    /\ errleft[r] > 0
    /\ errbuf[r] = PipeCap

\* C15: when the subprocess writes a finite amount to stdout and to stderr
\* and then exits, the runner call and the subprocess are never blocked on
\* each other, the subprocess on a full pipe and the call on its read, so
\* the call returns.
C15_NeverBlockedOnEachOther ==
    \A r \in Reqs : ~(ReaderBlocked(r) /\ WriterBlocked(r))

\* The line gives a diagnostic: a compiler-message line whose message has a
\* string level and a string text.
GivesDiagnostic(line) == IsCompilerMessage(line) /\ ~LacksLevelOrText(line)

\* The line has a target object.
HasTarget(line) ==
    /\ "target" \in DOMAIN line.obj
    /\ "obj" \in DOMAIN line.obj.target

\* The target of the line has a kind key whose value is not an array of
\* strings.
KindNotStrings(line) ==
    /\ HasTarget(line)
    /\ "kind" \in DOMAIN line.obj.target.obj
    /\ LET kind == line.obj.target.obj.kind
       IN  ~ /\ "arr" \in DOMAIN kind
             /\ \A i \in 1..Len(kind.arr) : "str" \in DOMAIN kind.arr[i]

\* The target of the line has a string name and no kind key.
KindMissing(line) ==
    /\ HasTarget(line)
    /\ HasStr(line.obj.target, "name")
    /\ "kind" \notin DOMAIN line.obj.target.obj

\* C16: a line whose target has a kind that is not an array of strings
\* still gives its diagnostic, with the target absent; a line whose target
\* (with its string name) has no kind key gives a target with kind absent.
C16_TargetAllOrNothing ==
    pout # None =>
        LET kept == SelectSeq(pin, GivesDiagnostic)
        IN  /\ Len(pout[1]) = Len(kept)
            /\ \A j \in 1..Len(kept) :
                  /\ pout[1][j].message.message = kept[j].obj.message.obj.message.str
                  /\ KindNotStrings(kept[j]) => pout[1][j].target = None
                  /\ KindMissing(kept[j]) =>
                         pout[1][j].target
                             = Some([name |-> kept[j].obj.target.obj.name.str,
                                     kind |-> None])

\* A target with kind ["lib", 7, "bin"], then a target without kind, then a
\* target with kind ["lib"]: no target, a target without kind, the target.
C16_Witness ==
    /\ pin = <<TargetKindMixedLine, TargetNoKindLine, ErrMismatched>>
    /\ pout # None
    /\ Len(pout[1]) = 3
    /\ pout[1][1].target = None
    /\ pout[1][2].target = Some([name |-> "foo", kind |-> None])
    /\ pout[1][3].target = Some([name |-> "foo", kind |-> Some(<<"lib">>)])

\* The span has the key is_primary.
HasPrimaryKey(span) == "is_primary" \in DOMAIN span.obj

\* The span is well formed but for its is_primary: it has a string file_name
\* and the four positions.
SpanButPrimary(span) ==
    /\ "obj" \in DOMAIN span
    /\ {"file_name", "line_start", "column_start", "line_end", "column_end"}
           \subseteq DOMAIN span.obj
    /\ "str" \in DOMAIN span.obj.file_name

\* The spans of the message of the line are an array of such spans.
SpansButPrimary(line) ==
    /\ "spans" \in DOMAIN line.obj.message.obj
    /\ "arr" \in DOMAIN line.obj.message.obj.spans
    /\ \A k \in 1..Len(line.obj.message.obj.spans.arr) :
          SpanButPrimary(line.obj.message.obj.spans.arr[k])

\* A position of a span: the integer, 0 for another value.
PositionOf(v) == IF "int" \in DOMAIN v THEN v.int ELSE 0

\* The DiagnosticSpan of a span that has the key is_primary: isPrimary is
\* the boolean, true for another value.
SpanRecord(span) ==
    [file_name |-> span.obj.file_name.str,
     line_start |-> PositionOf(span.obj.line_start),
     column_start |-> PositionOf(span.obj.column_start),
     line_end |-> PositionOf(span.obj.line_end),
     column_end |-> PositionOf(span.obj.column_end),
     is_primary |-> IF "bool" \in DOMAIN span.obj.is_primary
                    THEN span.obj.is_primary.bool ELSE TRUE]

SpanRecords(spans) == [k \in 1..Len(spans) |-> SpanRecord(spans[k])]

\* C17 as stated: a span that lacks the key is_primary is left out of the
\* spans of the diagnostic while the other spans of the message are kept in
\* order; a span whose is_primary is not a boolean is kept with isPrimary
\* true.
C17_SpanWithoutPrimaryDropped ==
    pout # None =>
        LET kept == SelectSeq(pin, GivesDiagnostic)
        IN  /\ Len(pout[1]) = Len(kept)
            /\ \A j \in 1..Len(kept) :
                  SpansButPrimary(kept[j]) =>
                      pout[1][j].message.spans
                          = SpanRecords(SelectSeq(kept[j].obj.message.obj.spans.arr,
                                                  HasPrimaryKey))

\* C17 as amended: a span that lacks the key is_primary leaves the
\* diagnostic, which is still produced, without any span; when every span
\* has the key all are kept in order, one whose is_primary is not a boolean
\* with isPrimary true.
C17_SpanWithoutPrimaryEmptiesSpans ==
    pout # None =>
        LET kept == SelectSeq(pin, GivesDiagnostic)
        IN  /\ Len(pout[1]) = Len(kept)
            /\ \A j \in 1..Len(kept) :
                  SpansButPrimary(kept[j]) =>
                      LET arr == kept[j].obj.message.obj.spans.arr
                      IN  /\ pout[1][j].message.message
                                 = kept[j].obj.message.obj.message.str
                          /\ pout[1][j].message.spans
                                 = IF \E k \in 1..Len(arr) : ~HasPrimaryKey(arr[k])
                                   THEN <<>>
                                   ELSE SpanRecords(arr)

\* A message whose second span of three lacks is_primary, then a message
\* whose second span has is_primary 0: no span, then two spans, the second
\* one primary.
C17_Witness ==
    /\ pin = <<SpansMissingPrimaryLine, SpansPrimaryNotBoolLine>>
    /\ pout # None
    /\ Len(pout[1]) = 2
    /\ pout[1][1].message.message = "borrowed value does not live long enough"
    /\ pout[1][1].message.spans = <<>>
    /\ pout[1][2].message.spans =
           <<[file_name |-> "src/main.rs", line_start |-> 8, column_start |-> 2,
              line_end |-> 9, column_end |-> 4, is_primary |-> FALSE],
             [file_name |-> "src/main.rs", line_start |-> 8, column_start |-> 2,
              line_end |-> 9, column_end |-> 4, is_primary |-> TRUE]>>

\* The runner call of the request is in progress.
InCall(r) == pc[r] \in {"spawn", "read", "wait"}

\* C18: the lock is held by a request exactly while its runner call is in
\* progress: a request that has ended, by a report or by a launch, stream
\* or wait failure, does not hold it, and when no call is in progress a
\* request that waits for the lock can take it.
C18_LockReleasedOnEveryEnd ==
    /\ lock \in Reqs \cup {0}
    /\ \A r \in Reqs :
          /\ (lock = r) <=> InCall(r)
          /\ (pc[r] = "done") =>
                 /\ fault[r] \in {"none", "launch", "stream", "wait"}
                 /\ lock # r
          /\ (pc[r] = "lock" /\ \A q \in Reqs : ~InCall(q)) => ENABLED Acquire(r)

\* The call of one request ended with a stream failure, and the other
\* request, which had asked for the lock, holds it and runs its subprocess.
C18_Witness ==
    \E r, q \in Reqs :
        /\ r # q
        /\ pc[r] = "done"
        /\ fault[r] = "stream"
        /\ lock = q
        /\ pc[q] = "read"
        /\ child[q].st = "running"

\* The text items of a response that stand for a diagnostic or a lemma: all
\* of them for get_lemmas, all but the closing summary for the other tools.
RecordItems(r) ==
    IF op[r] = "get_lemmas" THEN resp[r][1].content
    ELSE SubSeq(resp[r][1].content, 1, Len(resp[r][1].content) - 1)

\* The texts of the records the lines printed by the subprocess of the
\* request stand for.
OwnTexts(r) ==
    IF op[r] = "get_lemmas"
    THEN {SerializeLemma(lemma_of_line(stream[r][i])[1]) :
            i \in {k \in 1..Len(stream[r]) : lemma_of_line(stream[r][k]) # None}}
    ELSE {SerializeDiagnostic(diagnostic_of_line(stream[r][i])[1]) :
            i \in {k \in 1..Len(stream[r]) : diagnostic_of_line(stream[r][k]) # None}}

\* C19: `output` holds only lines the subprocess of its own request printed,
\* from the first on, and every diagnostic or lemma of a response comes from
\* such a line, whatever the requests before it did: there are no more of
\* them than lines, and a failed call gives none.
C19_NothingFromEarlierCalls ==
    \A r \in Reqs :
        /\ Len(output[r]) <= Len(stream[r])
        /\ output[r] = SubSeq(stream[r], 1, Len(output[r]))
        /\ pc[r] = "done" =>
               IF resp[r][1].kind = "success"
               THEN /\ Len(RecordItems(r)) <= Len(stream[r])
                    /\ \A j \in 1..Len(RecordItems(r)) :
                          /\ RecordItems(r)[j].type = "text"
                          /\ RecordItems(r)[j].text \in OwnTexts(r)
               ELSE resp[r][1].content = <<>>

\* One request verified a repository with an error and another asked for
\* the lemmas: it got its one lemma, and nothing of the error.
C19_Witness ==
    /\ pc[1] = "done"
    /\ op[1] = "verify_repository"
    /\ stream[1] = <<ErrMismatched>>
    /\ Len(resp[1][1].content) = 2
    /\ pc[NumRequests] = "done"
    /\ op[NumRequests] = "get_lemmas"
    /\ stream[NumRequests] = <<LemmaZeroLine>>
    /\ resp[NumRequests][1].content =
           <<[type |-> "text",
              text |-> "{\"name\":\"nil_len\",\"file_name\":\"b.rs\",\"start_line\":0,\"start_col\":0,\"end_line\":0,\"end_col\":0}"]>>

====
